---- MODULE Spec2Model ----
(***************************************************************************)
(* Model of the AP YAML obfuscator: the typed configuration model          *)
(* (apmodel.py), the option-wrapping engine (ap-obfuscate.py) and the      *)
(* escaped encoder (obfuscate.py).                                         *)
(***************************************************************************)
EXTENDS Integers, Sequences, FiniteSets, TLC

(***************************************************************************)
(* Generic value tree: what yaml.safe_load hands to the program.  Every    *)
(* value is a record of one shape; t is the Python type of the value.      *)
(* A mapping keeps its entries in insertion order, as a Python dict does.  *)
(***************************************************************************)
VStr(x) == [t |-> "str", s |-> x, n |-> 0, items |-> <<>>, ents |-> <<>>]

VInt(i) == [t |-> "int", s |-> "", n |-> i, items |-> <<>>, ents |-> <<>>]

VBool(b) == [t |-> "bool", s |-> "", n |-> IF b THEN 1 ELSE 0, items |-> <<>>, ents |-> <<>>]

VNull == [t |-> "null", s |-> "", n |-> 0, items |-> <<>>, ents |-> <<>>]

\* a float, given by the characters of str() of it
VFloat(chars) ==
    [t |-> "float", s |-> "", n |-> 0, items |-> chars, ents |-> <<>>]

VList(xs) == [t |-> "list", s |-> "", n |-> 0, items |-> xs, ents |-> <<>>]

VMap(es) == [t |-> "map", s |-> "", n |-> 0, items |-> <<>>, ents |-> es]

Ent(key, val) == [k |-> key, v |-> val]

(***************************************************************************)
(* Python dict operations on a sequence of entries [k, v].                 *)
(***************************************************************************)
DictHas(d, key) == \E i \in 1..Len(d) : d[i].k = key

DictIdx(d, key) == CHOOSE i \in 1..Len(d) : d[i].k = key

DictGet(d, key) == d[DictIdx(d, key)].v

DictKeys(d) == [i \in 1..Len(d) |-> d[i].k]

DictKeySet(d) == {d[i].k : i \in 1..Len(d)}

\* d[key] = val: an existing key keeps its position, a new key goes last
DictSet(d, key, val) ==
    IF DictHas(d, key)
    THEN [d EXCEPT ![DictIdx(d, key)] = Ent(key, val)]
    ELSE Append(d, Ent(key, val))

\* del d[key]
DictDel(d, key) == SelectSeq(d, LAMBDA e : e.k # key)

\* dict(pairs): the entries inserted in order, a repeated key overwriting
RECURSIVE DictOf(_)
DictOf(es) ==
    IF es = <<>> THEN <<>>
    ELSE LET init == DictOf(SubSeq(es, 1, Len(es) - 1))
             e == es[Len(es)]
         IN DictSet(init, e.k, e.v)

(***************************************************************************)
(* str(): Python's conversion of a scalar to text.                         *)
(***************************************************************************)
Digits == <<"0", "1", "2", "3", "4", "5", "6", "7", "8", "9">>

RECURSIVE NatToStr(_)
NatToStr(i) ==
    IF i < 10 THEN Digits[i + 1]
    ELSE NatToStr(i \div 10) \o Digits[(i % 10) + 1]

IntToStr(i) == IF i < 0 THEN "-" \o NatToStr(0 - i) ELSE NatToStr(i)

PyStr(v) ==
    CASE v.t = "str" -> v.s
      [] v.t = "int" -> IntToStr(v.n)
      [] v.t = "bool" -> IF v.n = 1 THEN "True" ELSE "False"
      [] v.t = "null" -> "None"
      [] OTHER -> v.s

(***************************************************************************)
(* apmodel.py: the typed model.                                            *)
(***************************************************************************)
GAME_SPECIAL_OPTIONS ==
    {"local_items", "non_local_items", "start_inventory",
     "start_inventory_from_pool", "start_hints", "start_location_hints",
     "exclude_locations", "priority_locations", "item_links",
     "plando_weakness"}

TOP_LEVEL_DIRECTIVES == {"name", "description", "requires", "game", "triggers"}

\* An Option object.  kind is its class; the fields a class does not have
\* hold an empty value.
WeightedOption(w) ==
    [kind |-> "WeightedOption", weights |-> w, raw |-> VNull,
     original_name |-> "", original_option |-> <<>>,
     wrapped_weights_names |-> <<>>]

CustomOption(obj) ==
    [kind |-> "CustomOption", weights |-> <<>>, raw |-> obj,
     original_name |-> "", original_option |-> <<>>,
     wrapped_weights_names |-> <<>>]

\* isinstance(option, WeightedOption): the class or its subclass
IsWeightedOption(o) == o.kind \in {"WeightedOption", "WrappedWeightedOption"}

\* WeightedOption.parse: "ok" is FALSE where the code raises NotImplementedError
WeightedOption_parse(obj) ==
    CASE obj.t = "map" ->
            [ok |-> TRUE,
             opt |-> WeightedOption(DictOf(
                 [i \in 1..Len(obj.ents) |->
                     Ent(PyStr(obj.ents[i].k), obj.ents[i].v.n)]))]
      [] obj.t \in {"str", "int", "bool"} ->
            [ok |-> TRUE, opt |-> WeightedOption(<<Ent(PyStr(obj), 1)>>)]
      [] OTHER -> [ok |-> FALSE, opt |-> CustomOption(obj)]

CustomOption_parse(obj) == CustomOption(obj)

Option_parse(option_name, obj) ==
    IF option_name \in GAME_SPECIAL_OPTIONS
    THEN CustomOption_parse(obj)
    ELSE LET r == WeightedOption_parse(obj)
         IN IF r.ok THEN r.opt ELSE CustomOption_parse(obj)

WeightedOption_output(o) ==
    IF Len(o.weights) = 1
    THEN VStr(o.weights[1].k)
    ELSE VMap([i \in 1..Len(o.weights) |->
                  Ent(VStr(o.weights[i].k), VInt(o.weights[i].v))])

Option_output(o) ==
    IF IsWeightedOption(o) THEN WeightedOption_output(o) ELSE o.raw

Trigger(cat, name, result, opts) ==
    [option_category |-> cat, option_name |-> name,
     option_result |-> result, options |-> opts]

\* obj.get(key): VNull where the key is absent
MapGetOr(obj, key, default) ==
    IF DictHas(obj.ents, VStr(key)) THEN DictGet(obj.ents, VStr(key)) ELSE default

Trigger_parse(obj) ==
    Trigger(IF MapGetOr(obj, "option_category", VNull).t = "null" THEN ""
            ELSE PyStr(DictGet(obj.ents, VStr("option_category"))),
            PyStr(DictGet(obj.ents, VStr("option_name"))),
            DictGet(obj.ents, VStr("option_result")),
            DictGet(obj.ents, VStr("options")))

Trigger_output(tr) ==
    VMap(<<Ent(VStr("option_category"), VStr(tr.option_category)),
           Ent(VStr("option_name"), VStr(tr.option_name)),
           Ent(VStr("option_result"), tr.option_result),
           Ent(VStr("options"), tr.options)>>)

Triggers_parse(obj) ==
    LET l == MapGetOr(obj, "triggers", VList(<<>>)).items
    IN [i \in 1..Len(l) |-> Trigger_parse(l[i])]

Game_parse(name, obj) ==
    LET opts == SelectSeq(obj.ents, LAMBDA e : e.k # VStr("triggers"))
    IN [name |-> name,
        triggers |-> Triggers_parse(obj),
        options |-> [i \in 1..Len(opts) |->
                        Ent(opts[i].k.s, Option_parse(opts[i].k.s, opts[i].v))]]

Game_output(game) ==
    VMap([i \in 1..Len(game.options) |->
             Ent(VStr(game.options[i].k), Option_output(game.options[i].v))]
         \o (IF game.triggers # <<>>
             THEN <<Ent(VStr("triggers"),
                        VList([i \in 1..Len(game.triggers) |->
                                  Trigger_output(game.triggers[i])]))>>
             ELSE <<>>))

Root_parse(obj) ==
    LET g == DictGet(obj.ents, VStr("game"))
        gs == SelectSeq(obj.ents, LAMBDA e : e.k.s \notin TOP_LEVEL_DIRECTIVES)
    IN [name |-> DictGet(obj.ents, VStr("name")),
        description |-> DictGet(obj.ents, VStr("description")),
        requires |-> DictGet(DictGet(obj.ents, VStr("requires")).ents,
                             VStr("version")),
        games |-> [i \in 1..Len(gs) |-> Game_parse(gs[i].k.s, gs[i].v)],
        game_weights |-> IF g.t = "str" THEN <<Ent(g, VInt(1))>> ELSE g.ents,
        triggers |-> Triggers_parse(obj)]

Root_output(r) ==
    VMap(DictOf(
        <<Ent(VStr("name"), r.name),
          Ent(VStr("description"), r.description),
          Ent(VStr("requires"), VMap(<<Ent(VStr("version"), r.requires)>>))>>
        \o (IF r.triggers # <<>>
            THEN <<Ent(VStr("triggers"),
                       VList([i \in 1..Len(r.triggers) |->
                                 Trigger_output(r.triggers[i])]))>>
            ELSE <<>>)
        \o <<Ent(VStr("game"),
                 IF Len(r.game_weights) = 1 THEN r.game_weights[1].k
                 ELSE VMap(r.game_weights))>>
        \o [i \in 1..Len(r.games) |->
               Ent(VStr(r.games[i].name), Game_output(r.games[i]))]))

(***************************************************************************)
(* ap-obfuscate.py: name generation.  The module-level generator `random`  *)
(* is an input of the run: its state selects the stream of names that the  *)
(* successive generate_new_name calls return.  MaxNames bounds the names   *)
(* the generator can produce; a document may use such a name itself.  A    *)
(* stream yields every name twice in a row, so that a draw can repeat the  *)
(* name drawn just before it as well as differ from it.                    *)
(***************************************************************************)
MaxNames == 5

WeirdName(i) == "w" \o NatToStr(i)

WEIRD_NAMES == {WeirdName(i) : i \in 1..MaxNames}

RandomStates == 0..(2 * MaxNames - 1)

\* one draw: the name the generator state yields, and the state after it
generate_new_name(rnd) ==
    [name |-> WeirdName((rnd \div 2) + 1), random |-> (rnd + 1) % (2 * MaxNames)]

\* the retry loop of generate_unique_name (range(100000)); a stream has
\* period 2 * MaxNames, so that many failed draws in a row mean that every
\* later draw fails as well
RECURSIVE generate_unique_loop(_, _, _)
generate_unique_loop(inside, rnd, tries) ==
    IF tries = 0
    THEN [ok |-> FALSE, name |-> "", random |-> rnd]
    ELSE LET d == generate_new_name(rnd)
         IN IF d.name \notin inside
            THEN [ok |-> TRUE, name |-> d.name, random |-> d.random]
            ELSE generate_unique_loop(inside, d.random, tries - 1)

\* generate_unique_name without the test "name not in inside"
generate_unique_name_unchecked(inside, rnd) ==
    LET d == generate_new_name(rnd)
    IN [ok |-> TRUE, name |-> d.name, random |-> d.random]

generate_unique_name(inside, rnd) ==
    generate_unique_loop(inside, rnd, 2 * MaxNames)

\* list_extend_beginning without reversed(): insert(0, elem) in list order
RECURSIVE list_extend_beginning_forward(_, _)
list_extend_beginning_forward(base_list, prepend_with) ==
    IF prepend_with = <<>> THEN base_list
    ELSE list_extend_beginning_forward(
             <<prepend_with[1]>> \o base_list,
             SubSeq(prepend_with, 2, Len(prepend_with)))

\* list_extend_beginning: insert(0, elem) for the elements in reverse order
RECURSIVE list_extend_beginning(_, _)
list_extend_beginning(base_list, prepend_with) ==
    IF prepend_with = <<>> THEN base_list
    ELSE list_extend_beginning(
             <<prepend_with[Len(prepend_with)]>> \o base_list,
             SubSeq(prepend_with, 1, Len(prepend_with) - 1))

(***************************************************************************)
(* ap-obfuscate.py: WrappedWeightedOption and ContextExtra.                *)
(* original_option holds the weights of the option wrapped (the only field *)
(* a WeightedOption has).                                                  *)
(***************************************************************************)
WrappedWeightedOption_wrap(name, option) ==
    [kind |-> "WrappedWeightedOption", weights |-> option.weights, raw |-> VNull,
     original_name |-> name, original_option |-> option.weights,
     wrapped_weights_names |->
         [i \in 1..Len(option.weights) |->
             Ent(option.weights[i].k, option.weights[i].k)]]

ContextExtra(game_name) ==
    [game_name |-> game_name, options |-> <<>>, triggers |-> <<>>]

\* ContextExtra.generate_option: the name is unique among self.options only
generate_option(extra, option, rnd) ==
    LET g == generate_unique_name(DictKeySet(extra.options), rnd)
    IN [ok |-> g.ok, name |-> g.name, random |-> g.random,
        extra |-> IF g.ok
                  THEN [extra EXCEPT !.options = DictSet(@, g.name, option)]
                  ELSE extra]

\* the loop over orig_option.weights (lines 137-148); st carries the locals
RECURSIVE wrap_weights(_, _, _, _, _, _)
wrap_weights(game_name, orig_name, wrapped_name, orig_weights, st, i) ==
    IF i > Len(orig_weights) \/ st.err # "" THEN st
    ELSE LET g == generate_unique_name(st.wrapped_weight_names, st.random)
             weight_name == orig_weights[i].k
             weight == orig_weights[i].v
         IN IF ~g.ok THEN [st EXCEPT !.err = "Exception"]
            ELSE wrap_weights(game_name, orig_name, wrapped_name, orig_weights,
                   [random |-> g.random,
                    wrapped_weight_names |-> st.wrapped_weight_names \cup {g.name},
                    weights |-> DictSet(st.weights, g.name, weight),
                    wrapped_weights_names |->
                        DictSet(st.wrapped_weights_names, weight_name, g.name),
                    triggers |-> Append(st.triggers,
                        Trigger(game_name, wrapped_name, VStr(g.name),
                                VMap(<<Ent(VStr(game_name),
                                    VMap(<<Ent(VStr(orig_name),
                                               VStr(weight_name))>>))>>))),
                    err |-> ""],
                   i + 1)

\* the loop over orig_options (lines 124-150); st carries self.options, the
\* generator, the triggers and real_to_wrapped built so far
RECURSIVE create_wrapper_loop(_, _, _, _)
create_wrapper_loop(game_name, orig_options, st, i) ==
    IF i > Len(orig_options) \/ st.err # "" THEN st
    ELSE LET orig_name == orig_options[i].k
             orig_option == orig_options[i].v
         IN IF ~IsWeightedOption(orig_option)
            THEN create_wrapper_loop(game_name, orig_options, st, i + 1)
            ELSE
            LET go == generate_option(st.extra,
                          WrappedWeightedOption_wrap(orig_name, orig_option),
                          st.random)
                w == wrap_weights(game_name, orig_name, go.name,
                         orig_option.weights,
                         [random |-> go.random, wrapped_weight_names |-> {},
                          weights |-> <<>>, wrapped_weights_names |-> <<>>,
                          triggers |-> st.triggers, err |-> ""],
                         1)
                wrapped_option ==
                    [DictGet(go.extra.options, go.name) EXCEPT
                        !.weights = w.weights,
                        !.wrapped_weights_names = w.wrapped_weights_names]
                err == CASE ~go.ok -> "Exception"
                         [] w.err # "" -> w.err
                         [] Len(w.weights) # Len(orig_option.weights) -> "AssertionError"
                         [] w.weights = <<>> -> "AssertionError"
                         [] OTHER -> ""
            IN IF ~go.ok THEN [st EXCEPT !.err = "Exception"]
               ELSE create_wrapper_loop(game_name, orig_options,
                      [extra |-> [go.extra EXCEPT
                                     !.options = DictSet(@, go.name, wrapped_option)],
                       random |-> w.random,
                       triggers |-> w.triggers,
                       real_to_wrapped |->
                           DictSet(st.real_to_wrapped, orig_name, go.name),
                       err |-> err],
                      i + 1)

\* ContextExtra.create_wrapper_options: [extra, random, triggers,
\* real_to_wrapped, err]; err names the exception raised, "" for none
create_wrapper_options(extra, orig_options, rnd) ==
    create_wrapper_loop(extra.game_name, orig_options,
        [extra |-> extra, random |-> rnd, triggers |-> <<>>,
         real_to_wrapped |-> <<>>, err |-> ""],
        1)

(***************************************************************************)
(* ap-obfuscate.py: Context.obfuscate_game_wrap.                           *)
(***************************************************************************)
\* lines 248-251: the loop over list(weights.items()); snapshot is that list
RECURSIVE rename_weights(_, _, _, _)
rename_weights(weights, snapshot, new_weight_names, i) ==
    IF i > Len(snapshot) THEN weights
    ELSE LET weight_name == snapshot[i].k
             weight == snapshot[i].v
         IN IF weight_name.t = "str" /\ DictHas(new_weight_names, weight_name.s)
            THEN rename_weights(
                     DictSet(DictDel(weights, weight_name),
                             VStr(DictGet(new_weight_names, weight_name.s)),
                             weight),
                     snapshot, new_weight_names, i + 1)
            ELSE rename_weights(weights, snapshot, new_weight_names, i + 1)

\* lines 233-251: the loop over list(game_trigger_options.items())
RECURSIVE rename_trigger_options(_, _, _, _, _)
rename_trigger_options(game_trigger_options, snapshot, real_name_to_wrapped, extra_options, i) ==
    IF i > Len(snapshot) THEN game_trigger_options
    ELSE LET option_name == snapshot[i].k
             value == snapshot[i].v
         IN IF ~(option_name.t = "str"
                 /\ DictHas(real_name_to_wrapped, option_name.s))
            THEN rename_trigger_options(game_trigger_options, snapshot,
                     real_name_to_wrapped, extra_options, i + 1)
            ELSE
            LET weights == IF value.t # "map"
                           THEN <<Ent(value, VInt(1))>>
                           ELSE value.ents
                wrapped_option_name == DictGet(real_name_to_wrapped, option_name.s)
                new_weight_names ==
                    DictGet(extra_options, wrapped_option_name).wrapped_weights_names
            IN rename_trigger_options(
                   DictSet(DictDel(game_trigger_options, option_name),
                           VStr(wrapped_option_name),
                           VMap(rename_weights(weights, weights,
                                               new_weight_names, 1))),
                   snapshot, real_name_to_wrapped, extra_options, i + 1)

\* lines 217-251: the body of the loop over game.triggers for one trigger;
\* err is "KeyError" where the lookup of option_result raises
rewrite_trigger(trigger, game_name, real_name_to_wrapped, extra_options) ==
    IF trigger.option_category # game_name
       \/ ~DictHas(real_name_to_wrapped, trigger.option_name)
    THEN [trigger |-> trigger, err |-> ""]
    ELSE
    LET option_name == DictGet(real_name_to_wrapped, trigger.option_name)
        new_weight_names ==
            DictGet(extra_options, option_name).wrapped_weights_names
        renamed == [trigger EXCEPT !.option_name = option_name]
    IN IF ~(trigger.option_result.t = "str"
            /\ DictHas(new_weight_names, trigger.option_result.s))
       THEN [trigger |-> renamed, err |-> "KeyError"]
       ELSE
       LET gated == [renamed EXCEPT !.option_result =
                        VStr(DictGet(new_weight_names, trigger.option_result.s))]
           key == VStr(game_name)
       IN [trigger |->
               IF DictHas(trigger.options.ents, key)
               THEN [gated EXCEPT !.options.ents =
                        DictSet(@, key,
                            LET gto == DictGet(trigger.options.ents, key)
                            IN [gto EXCEPT !.ents =
                                   rename_trigger_options(gto.ents, gto.ents,
                                       real_name_to_wrapped, extra_options, 1)])]
               ELSE gated,
           err |-> ""]

\* line 216: the loop over game.triggers, left at the first exception
RECURSIVE rewrite_triggers(_, _, _, _, _)
rewrite_triggers(triggers, game_name, real_name_to_wrapped, extra_options, i) ==
    IF i > Len(triggers) THEN [triggers |-> triggers, err |-> ""]
    ELSE LET r == rewrite_trigger(triggers[i], game_name,
                                  real_name_to_wrapped, extra_options)
             ts == [triggers EXCEPT ![i] = r.trigger]
         IN IF r.err # "" THEN [triggers |-> ts, err |-> r.err]
            ELSE rewrite_triggers(ts, game_name, real_name_to_wrapped,
                                  extra_options, i + 1)

\* lines 192-194 without the del: the wrapped option stays beside its wrapper
RECURSIVE replace_options_keeping(_, _, _, _)
replace_options_keeping(options, real_name_to_wrapped, extra_options, i) ==
    IF i > Len(real_name_to_wrapped) THEN options
    ELSE LET wrapped_name == real_name_to_wrapped[i].v
         IN replace_options_keeping(
                DictSet(options, wrapped_name,
                        DictGet(extra_options, wrapped_name)),
                real_name_to_wrapped, extra_options, i + 1)

\* lines 192-194: del game.options[real_name]; game.options[wrapped_name] = ...
RECURSIVE replace_options(_, _, _, _)
replace_options(options, real_name_to_wrapped, extra_options, i) ==
    IF i > Len(real_name_to_wrapped) THEN options
    ELSE LET real_name == real_name_to_wrapped[i].k
             wrapped_name == real_name_to_wrapped[i].v
         IN replace_options(
                DictSet(DictDel(options, real_name), wrapped_name,
                        DictGet(extra_options, wrapped_name)),
                real_name_to_wrapped, extra_options, i + 1)

\* Root.game_by_name: the index of the first game of that name
game_by_name(r, game_name) ==
    CHOOSE i \in 1..Len(r.games) :
        /\ r.games[i].name = game_name
        /\ \A j \in 1..(i - 1) : r.games[j].name # game_name

\* Context.obfuscate_game_wrap on the Root r: the Root, the ContextExtra and
\* the generator after the call, what create_wrapper_options returned, and
\* the exception that ended the call ("" for none)
obfuscate_game_wrap(r, extra, game_name, first_time, rnd) ==
    LET gi == game_by_name(r, game_name)
        game == r.games[gi]
        c == create_wrapper_options(extra,
                 SelectSeq(game.options, LAMBDA e : IsWeightedOption(e.v)), rnd)
        options == replace_options(game.options, c.real_to_wrapped,
                                   c.extra.options, 1)
        rw == rewrite_triggers(game.triggers, game_name, c.real_to_wrapped,
                               c.extra.options, 1)
        triggers ==
            IF first_time
            THEN IF rw.err # "" THEN rw.triggers
                 ELSE rw.triggers \o c.triggers
            ELSE list_extend_beginning(game.triggers, c.triggers)
        err == IF c.err # "" THEN c.err
               ELSE IF first_time THEN rw.err ELSE ""
    IN [root |-> IF c.err # "" THEN r
                 ELSE [r EXCEPT !.games[gi].options = options,
                                !.games[gi].triggers = triggers],
        extra |-> c.extra,
        random |-> c.random,
        wrapped_triggers |-> c.triggers,
        real_name_to_wrapped |-> c.real_to_wrapped,
        err |-> err]

\* self.root = root: no copy, the same object graph
deepcopy_alias(h, ref) == [heap |-> h, ref |-> ref]

\* copy.deepcopy(root): a new object graph with the contents of heap[ref]
deepcopy(h, ref) == [heap |-> Append(h, h[ref]), ref |-> Len(h) + 1]

\* range(2) in to_obfuscated_ap_yaml
Passes == 2

(***************************************************************************)
(* The input documents: one decoded document per run, drawn from a bounded *)
(* family.  Game "G" holds option "A", optionally a second weighted        *)
(* option, optionally an option that parses as a CustomOption, and up to   *)
(* MaxTriggers triggers; the document may also hold a top-level trigger    *)
(* list or a second game "H".  A document may use a name that the name     *)
(* generator can produce.                                                  *)
(***************************************************************************)
MaxTriggers == 2

Weights2(l1, w1, l2, w2) == VMap(<<Ent(l1, VInt(w1)), Ent(l2, VInt(w2))>>)

\* a trigger of the document; overrides are the entries of options[scope]
TriggerObj(cat, name, result, scope, overrides) ==
    VMap(<<Ent(VStr("option_category"), cat),
           Ent(VStr("option_name"), VStr(name)),
           Ent(VStr("option_result"), result),
           Ent(VStr("options"), VMap(<<Ent(VStr(scope), VMap(overrides))>>))>>)

AValues == {VStr("a1"), Weights2(VStr("a1"), 1, VStr("a2"), 2), VInt(5)}

OptionB == Ent(VStr("B"), Weights2(VStr("b1"), 1, VStr("b2"), 1))

\* a weighted option under a name the generator can produce
OptionWeird == Ent(VStr(WeirdName(1)), VStr("b1"))

\* a special option: a CustomOption whatever its shape
OptionSpecial == Ent(VStr("local_items"), VStr("x"))

\* a sequence: a CustomOption, under a name the generator can produce
OptionList == Ent(VStr(WeirdName(2)), VList(<<VStr("x")>>))

MoreOptions ==
    {<<>>, <<OptionB>>, <<OptionWeird>>, <<OptionSpecial>>,
     <<OptionB, OptionList>>, <<OptionB, OptionSpecial>>}

TriggerChoices ==
    {\* gate on A = a1: a weight mapping for B, a bare label for A
     TriggerObj(VStr("G"), "A", VStr("a1"), "G",
                <<Ent(VStr("B"), Weights2(VStr("b1"), 1, VStr("b2"), 2)),
                  Ent(VStr("A"), VStr("a2"))>>),
     \* gate on B = b1: a label that A does not declare
     TriggerObj(VStr("G"), "B", VStr("b1"), "G", <<Ent(VStr("A"), VStr("z"))>>),
     \* gate on an option that is not wrapped
     TriggerObj(VStr("G"), "local_items", VStr("x"), "G",
                <<Ent(VStr("A"), VStr("a2"))>>),
     \* gate on A = 5 as the document reader decodes it, no override for G
     TriggerObj(VStr("G"), "A", VInt(5), "H", <<Ent(VStr("C"), VStr("c1"))>>)}

\* the sequences of up to n distinct elements of S
SeqsNoRep(S, n) ==
    {q \in UNION {[1..k -> S] : k \in 0..n} :
        \A i, j \in 1..Len(q) : i # j => q[i] # q[j]}

WithTriggers(ents, trigs) ==
    IF trigs = <<>> THEN ents
    ELSE ents \o <<Ent(VStr("triggers"), VList(trigs))>>

GameG(a, more, trigs) ==
    VMap(WithTriggers(<<Ent(VStr("A"), a)>> \o more, trigs))

\* the second game: its trigger gates on an option of game G
GameH ==
    VMap(WithTriggers(<<Ent(VStr("C"), VStr("c1"))>>,
        <<TriggerObj(VStr("G"), "A", VStr("a1"), "H",
                     <<Ent(VStr("C"), VStr("c2"))>>)>>))

\* the top-level trigger list: its trigger gates on and overrides option A
\* of game G
RootTriggers ==
    <<TriggerObj(VStr("G"), "A", VStr("a1"), "G", <<Ent(VStr("A"), VStr("a2"))>>)>>

Header(game) ==
    <<Ent(VStr("name"), VStr("Player")),
      Ent(VStr("description"), VStr("d")),
      Ent(VStr("requires"), VMap(<<Ent(VStr("version"), VStr("0.6.1"))>>)),
      Ent(VStr("game"), game)>>

Document(variant, g) ==
    IF variant = "one_game"
    THEN VMap(Header(VStr("G")) \o <<Ent(VStr("G"), g)>>)
    ELSE VMap(WithTriggers(Header(Weights2(VStr("G"), 1, VStr("H"), 2)),
                           RootTriggers)
              \o <<Ent(VStr("G"), g), Ent(VStr("H"), GameH)>>)

Documents ==
    {Document(variant, GameG(a, more, trigs)) :
        variant \in {"one_game", "two_games"},
        a \in AValues, more \in MoreOptions,
        trigs \in SeqsNoRep(TriggerChoices, MaxTriggers)}

(***************************************************************************)
(* The run of to_obfuscated_ap_yaml(obj).                                  *)
(***************************************************************************)
VARIABLES
    doc,          \* obj: the decoded input document
    random,       \* the state of the name generator
    pc,           \* the position in to_obfuscated_ap_yaml
    heap,         \* the Root object graphs, by reference
    orig_root,    \* Context.orig_root: a reference into heap, 0 before __init__
    root,         \* Context.root: a reference into heap, 0 before __init__
    extra_games,  \* Context.extra_games: game name -> ContextExtra
    iteration,    \* Context.iteration
    game_index,   \* the position of the loop of Context.obfuscate
    calls,        \* what each obfuscate_game_wrap call saw and returned
    output,       \* context.generate(): the tree handed to the encoder
    text,         \* the characters to_obfuscated_yaml returns
    decoded       \* what the document reader decodes from text

vars == <<doc, random, pc, heap, orig_root, root, extra_games, iteration,
          game_index, calls, output, text, decoded>>

Init ==
    /\ doc \in Documents
    /\ random \in RandomStates
    /\ pc = "parse"
    /\ heap = <<>>
    /\ orig_root = 0
    /\ root = 0
    /\ extra_games = <<>>
    /\ iteration = 0
    /\ game_index = 1
    /\ calls = <<>>
    /\ output = VNull
    /\ text = <<>>
    /\ decoded = VNull

\* line 262: root = Root.parse(obj)
Parse ==
    /\ pc = "parse"
    /\ heap' = <<Root_parse(doc)>>
    /\ pc' = "context"
    /\ UNCHANGED <<doc, random, orig_root, root, extra_games, iteration,
                   game_index, calls, output, text, decoded>>

\* line 263: Context(root), Context.__init__
Context_init ==
    /\ pc = "context"
    /\ LET c == deepcopy(heap, 1)
           games == c.heap[c.ref].games
       IN /\ heap' = c.heap
          /\ orig_root' = 1
          /\ root' = c.ref
          /\ extra_games' = DictOf([i \in 1..Len(games) |->
                                Ent(games[i].name, ContextExtra(games[i].name))])
    /\ iteration' = 0
    /\ game_index' = 1
    /\ pc' = "obfuscate"
    /\ UNCHANGED <<doc, random, calls, output, text, decoded>>

\* lines 264-266 and 175-181: one obfuscate_game call of Context.obfuscate;
\* the call for the last game ends the pass (self.iteration += 1)
Obfuscate_game ==
    /\ pc = "obfuscate"
    /\ game_index <= Len(extra_games)
    /\ LET game_name == extra_games[game_index].k
           first_time == (iteration = 0)
           before == heap[root].games[game_by_name(heap[root], game_name)]
           last == (game_index = Len(extra_games))
       IN \E r \in {obfuscate_game_wrap(heap[root], extra_games[game_index].v,
                                        game_name, first_time, random)} :
          /\ heap' = [heap EXCEPT ![root] = r.root]
          /\ extra_games' = [extra_games EXCEPT ![game_index].v = r.extra]
          /\ random' = r.random
          /\ calls' = Append(calls,
                 [game_name |-> game_name, iteration |-> iteration,
                  options |-> before.options, triggers |-> before.triggers,
                  wrapped_triggers |-> r.wrapped_triggers,
                  real_name_to_wrapped |-> r.real_name_to_wrapped,
                  options_after |-> r.root.games[game_by_name(r.root, game_name)].options,
                  triggers_after |-> r.root.games[game_by_name(r.root, game_name)].triggers,
                  err |-> r.err])
          /\ IF r.err # ""
             THEN /\ pc' = "failed"
                  /\ UNCHANGED <<iteration, game_index>>
             ELSE /\ game_index' = IF last THEN 1 ELSE game_index + 1
                  /\ iteration' = IF last THEN iteration + 1 ELSE iteration
                  /\ pc' = IF last /\ iteration + 1 = Passes
                           THEN "generate" ELSE "obfuscate"
    /\ UNCHANGED <<doc, orig_root, root, output, text, decoded>>

\* line 272: context.generate(), the argument of to_obfuscated_yaml
Generate ==
    /\ pc = "generate"
    /\ output' = Root_output(heap[root])
    /\ pc' = "done"
    /\ UNCHANGED <<doc, random, heap, orig_root, root, extra_games, iteration,
                   game_index, calls, text, decoded>>

Next == Parse \/ Context_init \/ Obfuscate_game \/ Generate

Spec == Init /\ [][Next]_vars

(***************************************************************************)
(* Properties.                                                             *)
(***************************************************************************)
\* the obfuscate_game_wrap call for game g in pass it (0 when not yet made)
CallOf(g, it) ==
    IF \E i \in 1..Len(calls) :
           calls[i].game_name = g /\ calls[i].iteration = it
    THEN CHOOSE i \in 1..Len(calls) :
             calls[i].game_name = g /\ calls[i].iteration = it
    ELSE 0

\* a pass of Context.obfuscate has just completed for every game
PassCompleted ==
    /\ pc \in {"obfuscate", "generate", "done"}
    /\ iteration >= 1
    /\ game_index = 1

GameNames == {extra_games[i].k : i \in 1..Len(extra_games)}

GameOf(r, g) == r.games[game_by_name(r, g)]

WrapperNames(c) ==
    {c.real_name_to_wrapped[j].v : j \in 1..Len(c.real_name_to_wrapped)}

\* the entries of trigger.options[game name], <<>> when the scope is absent
OverridesFor(tr, g) ==
    IF DictHas(tr.options.ents, VStr(g))
    THEN DictGet(tr.options.ents, VStr(g)).ents
    ELSE <<>>

\* C3: in every obfuscate_game_wrap call the wrapper option names are
\* pairwise distinct and distinct from every option name the game holds
\* when the call starts, and the game has as many options after the call as
\* before it.
C3_WrapperNamesFresh ==
    \A i \in 1..Len(calls) :
        LET c == calls[i]
        IN /\ WrapperNames(c) \cap DictKeySet(c.options) = {}
           /\ Cardinality(WrapperNames(c)) = Len(c.real_name_to_wrapped)
           /\ Len(c.options_after) = Len(c.options)

\* C4: for every option wrapped by a create_wrapper_options call, the
\* wrapper has as many labels as the original, wrapped_weights_names maps
\* the original labels one-to-one onto the wrapper's labels, each wrapper
\* label carries the weight of the label it maps from, and the triggers
\* generated for the wrapper gate on exactly the wrapper's labels, each
\* overriding the original option to the paired original label.
C4_WrappingIsWeightPreservingBijection ==
    \A i \in 1..Len(calls) :
        LET c == calls[i]
            extra == DictGet(extra_games, c.game_name)
        IN \A j \in 1..Len(c.real_name_to_wrapped) :
            LET orig_name == c.real_name_to_wrapped[j].k
                wrapped_name == c.real_name_to_wrapped[j].v
                orig == DictGet(c.options, orig_name)
                w == DictGet(extra.options, wrapped_name)
                m == w.wrapped_weights_names
                trs == SelectSeq(c.wrapped_triggers,
                                 LAMBDA tr : tr.option_name = wrapped_name)
            IN /\ Len(w.weights) = Len(orig.weights)
               /\ DictKeys(m) = DictKeys(orig.weights)
               /\ \A a, b \in 1..Len(m) : m[a].v = m[b].v => a = b
               /\ {m[a].v : a \in 1..Len(m)} = DictKeySet(w.weights)
               /\ \A a \in 1..Len(m) :
                      DictGet(w.weights, m[a].v) = orig.weights[a].v
               /\ Len(trs) = Len(orig.weights)
               /\ {trs[a].option_result : a \in 1..Len(trs)}
                     = {VStr(l) : l \in DictKeySet(w.weights)}
               /\ \A a \in 1..Len(trs) :
                      /\ trs[a].option_category = c.game_name
                      /\ \E b \in 1..Len(m) :
                            /\ trs[a].option_result = VStr(m[b].v)
                            /\ trs[a].options =
                                  VMap(<<Ent(VStr(c.game_name),
                                      VMap(<<Ent(VStr(orig_name),
                                                 VStr(m[b].k))>>))>>)

\* a run that ended after wrapping an option of two labels of unequal weight
C4_Witness ==
    /\ pc = "done"
    /\ \E i \in 1..Len(calls) :
         \E j \in 1..Len(calls[i].real_name_to_wrapped) :
            LET orig == DictGet(calls[i].options,
                                calls[i].real_name_to_wrapped[j].k)
            IN /\ Len(orig.weights) = 2
               /\ orig.weights[1].v # orig.weights[2].v

\* the (option name, label) pairs of the weighted options, in dict order
RECURSIVE LabelPairs(_)
LabelPairs(options) ==
    IF options = <<>> THEN <<>>
    ELSE LabelPairs(SubSeq(options, 1, Len(options) - 1))
         \o (LET e == options[Len(options)]
             IN IF IsWeightedOption(e.v)
                THEN [a \in 1..Len(e.v.weights) |-> <<e.k, e.v.weights[a].k>>]
                ELSE <<>>)

\* the triggers of c.wrapped_triggers are in generation order: one per
\* label, by option and then by label of the options the call started from
InGenerationOrder(c) ==
    /\ Len(c.wrapped_triggers) = Len(LabelPairs(c.options))
    /\ \A a \in 1..Len(c.wrapped_triggers) :
          OverridesFor(c.wrapped_triggers[a], c.game_name)
             = <<Ent(VStr(LabelPairs(c.options)[a][1]),
                     VStr(LabelPairs(c.options)[a][2]))>>

\* C5: for every game, once pass 0 has completed the trigger list is the
\* pre-existing triggers, none dropped and in their order (the same
\* option_category and overridden scopes, and the very same trigger when it
\* does not gate on a wrapped option of the game), followed by the pass-0
\* wrapper triggers in generation order; once pass 1 has completed it is the
\* pass-1 wrapper triggers in generation order followed by the unchanged
\* list that pass 0 left.
C5_TriggerListLayout ==
    PassCompleted =>
        \A g \in GameNames :
            LET c0 == calls[CallOf(g, 0)]
                c1 == calls[CallOf(g, 1)]
                now == GameOf(heap[root], g).triggers
                n == Len(c0.triggers)
            IN /\ Len(c0.triggers_after) = n + Len(c0.wrapped_triggers)
               /\ SubSeq(c0.triggers_after, n + 1, Len(c0.triggers_after))
                     = c0.wrapped_triggers
               /\ InGenerationOrder(c0)
               /\ \A a \in 1..n :
                     LET old == c0.triggers[a]
                         new == c0.triggers_after[a]
                     IN /\ new.option_category = old.option_category
                        /\ DictKeys(new.options.ents) = DictKeys(old.options.ents)
                        /\ (old.option_category # g
                            \/ ~DictHas(c0.real_name_to_wrapped, old.option_name))
                              => new = old
                        /\ (old.option_category = g
                            /\ DictHas(c0.real_name_to_wrapped, old.option_name))
                              => new.option_name =
                                   DictGet(c0.real_name_to_wrapped, old.option_name)
               /\ iteration = 1 => now = c0.triggers_after
               /\ iteration = 2 =>
                     /\ InGenerationOrder(c1)
                     /\ now = c1.wrapped_triggers \o c0.triggers_after

\* both passes completed for a game that came with two triggers and whose
\* passes each generated at least two triggers
C5_Witness ==
    /\ pc = "done"
    /\ \E g \in GameNames :
          /\ Len(calls[CallOf(g, 0)].triggers) = 2
          /\ Len(calls[CallOf(g, 0)].wrapped_triggers) >= 2
          /\ Len(calls[CallOf(g, 1)].wrapped_triggers) >= 2

\* C8: once the Context exists, the Root it was given (orig_root) holds
\* what Root.parse built from the document, whatever the passes do.
C8_OriginalRootUnchanged ==
    orig_root # 0 => heap[orig_root] = Root_parse(doc)

\* both passes ran and changed the working copy
C8_Witness ==
    /\ pc = "done"
    /\ heap[root] # heap[orig_root]
    /\ \E i \in 1..Len(heap[orig_root].games) :
          heap[orig_root].games[i].triggers # <<>>

PreExistingTriggers(r) ==
    {r.triggers[a] : a \in 1..Len(r.triggers)}
    \cup UNION {
        LET c0 == calls[CallOf(h, 0)]
            c1 == calls[CallOf(h, 1)]
            now == GameOf(r, h).triggers
        IN {now[Len(c1.wrapped_triggers) + a] : a \in 1..Len(c0.triggers)}
        : h \in GameNames}

\* C9: after obfuscation no trigger the document came with, whether in the
\* top-level list or in any game's list, still gates on or overrides an
\* option of a game under a name that pass 0 wrapped and that the game no
\* longer holds.
C9_TriggersTranslatedInEveryScope ==
    pc = "done" =>
        \A g \in GameNames :
            LET c0 == calls[CallOf(g, 0)]
                gone == {k \in DictKeySet(c0.real_name_to_wrapped) :
                            ~DictHas(GameOf(heap[root], g).options, k)}
            IN \A tr \in PreExistingTriggers(heap[root]) :
                  /\ tr.option_category = g => tr.option_name \notin gone
                  /\ \A b \in 1..Len(OverridesFor(tr, g)) :
                        PyStr(OverridesFor(tr, g)[b].k) \notin gone

\* C10: pass 0 rewrites the overrides of every trigger the game came with:
\* each entry of options[game name] whose key names a just-wrapped option
\* is re-keyed to the wrapper's name, its value is a weight mapping (a bare
\* label having become a single weight-1 entry), and every label that has a
\* paired wrapper label is replaced by it.
C10_OverridesRewritten ==
    \A i \in 1..Len(calls) :
        LET c == calls[i]
            g == c.game_name
            extra == DictGet(extra_games, g)
        IN (c.iteration = 0 /\ c.err = "") =>
            \A a \in 1..Len(c.triggers) :
                LET old == OverridesFor(c.triggers[a], g)
                    new == OverridesFor(c.triggers_after[a], g)
                IN \A b \in 1..Len(old) :
                    (old[b].k.t = "str"
                     /\ DictHas(c.real_name_to_wrapped, old[b].k.s)) =>
                        LET wrapped_name ==
                                DictGet(c.real_name_to_wrapped, old[b].k.s)
                            names == DictGet(extra.options, wrapped_name)
                                        .wrapped_weights_names
                            weights == IF old[b].v.t = "map" THEN old[b].v.ents
                                       ELSE <<Ent(old[b].v, VInt(1))>>
                        IN /\ DictHas(new, VStr(wrapped_name))
                           /\ DictGet(new, VStr(wrapped_name)).t = "map"
                           /\ \A l \in 1..Len(weights) :
                                 (weights[l].k.t = "str"
                                  /\ DictHas(names, weights[l].k.s)) =>
                                    /\ DictHas(DictGet(new, VStr(wrapped_name)).ents,
                                          VStr(DictGet(names, weights[l].k.s)))
                                    /\ DictGet(DictGet(new, VStr(wrapped_name)).ents,
                                          VStr(DictGet(names, weights[l].k.s)))
                                          = weights[l].v

(***************************************************************************)
(* The downstream interpreter of a game block, as claim C1 describes it:   *)
(* every option resolves to one of its labels, then the game's triggers    *)
(* are applied in list order.  A resolution is a function from option      *)
(* names to values; an override given as a weight mapping resolves to any  *)
(* of its labels of positive weight.                                       *)
(***************************************************************************)
IsScalar(v) == v.t \in {"str", "int", "bool"}

\* equality of two values, a label being the str() of what the document held
SameValue(a, b) == a = b \/ (IsScalar(a) /\ IsScalar(b) /\ PyStr(a) = PyStr(b))

Normal(v) == IF IsScalar(v) THEN VStr(PyStr(v)) ELSE v

ResolveValue(v) ==
    IF v.t = "map"
    THEN {v.ents[i].k : i \in {j \in 1..Len(v.ents) : v.ents[j].v.n > 0}}
    ELSE {v}

Assign(st, name, v) ==
    [n \in DOMAIN st \cup {name} |-> IF n = name THEN v ELSE st[n]]

RECURSIVE ApplyOverrides(_, _, _)
ApplyOverrides(S, ents, i) ==
    IF i > Len(ents) THEN S
    ELSE ApplyOverrides(
             {Assign(st, PyStr(ents[i].k), v) :
                 st \in S, v \in ResolveValue(ents[i].v)},
             ents, i + 1)

Fires(st, tr, g) ==
    /\ tr.option_category = g
    /\ tr.option_name \in DOMAIN st
    /\ SameValue(st[tr.option_name], tr.option_result)

RECURSIVE RunTriggers(_, _, _, _)
RunTriggers(S, triggers, g, i) ==
    IF i > Len(triggers) THEN S
    ELSE RunTriggers(
             UNION {IF Fires(st, triggers[i], g)
                    THEN ApplyOverrides({st}, OverridesFor(triggers[i], g), 1)
                    ELSE {st} : st \in S},
             triggers, g, i + 1)

\* what the names resolve to in the resolutions the game can end in
Outcomes(game, initial, names) ==
    {[n \in names |-> IF n \in DOMAIN st
                      THEN [set |-> TRUE, val |-> Normal(st[n])]
                      ELSE [set |-> FALSE, val |-> VNull]] :
        st \in RunTriggers({initial}, game.triggers, game.name, 1)}

WeightedNames(game) ==
    {game.options[i].k :
        i \in {j \in 1..Len(game.options) : IsWeightedOption(game.options[j].v)}}

PositiveLabels(o) ==
    {o.weights[i].k : i \in {j \in 1..Len(o.weights) : o.weights[j].v > 0}}

\* the weighted choices of a game: a label of positive weight per option
Choices(game) ==
    {ch \in [WeightedNames(game) ->
                UNION {PositiveLabels(DictGet(game.options, n)) :
                          n \in WeightedNames(game)}] :
        \A n \in WeightedNames(game) :
            ch[n] \in PositiveLabels(DictGet(game.options, n))}

\* the resolution a choice starts from: the chosen labels, the raw values
InitialResolution(game, label) ==
    [n \in DictKeySet(game.options) |->
        IF IsWeightedOption(DictGet(game.options, n))
        THEN VStr(label[n])
        ELSE DictGet(game.options, n).raw]

\* the wrapper of wrapper that stands for option n of game g after both
\* passes, and the label of it that stands for label l (by the recorded
\* real_name_to_wrapped and wrapped_weights_names); ok is FALSE when the
\* records do not lead from n to an option the game holds
Corresponding(g, n, l) ==
    LET c0 == calls[CallOf(g, 0)]
        c1 == calls[CallOf(g, 1)]
        extra == DictGet(extra_games, g).options
        game == GameOf(heap[root], g)
    IN IF DictHas(c0.real_name_to_wrapped, n)
          /\ DictHas(c1.real_name_to_wrapped,
                     DictGet(c0.real_name_to_wrapped, n))
       THEN LET w == DictGet(c0.real_name_to_wrapped, n)
                v == DictGet(c1.real_name_to_wrapped, w)
                wl == DictGet(DictGet(extra, w).wrapped_weights_names, l)
                vl == DictGet(DictGet(extra, v).wrapped_weights_names, wl)
            IN [ok |-> DictHas(game.options, v)
                       /\ game.options[DictIdx(game.options, v)].v
                             = DictGet(extra, v),
                name |-> v, label |-> vl,
                weight |-> DictGet(DictGet(extra, v).weights, vl)]
       ELSE [ok |-> FALSE, name |-> "", label |-> "", weight |-> 0]

\* the choice of the obfuscated game that corresponds to choice ch of the
\* input game: each wrapper takes the label standing for the chosen one
CorrespondingChoice(g, orig, obf, ch) ==
    [k \in WeightedNames(obf) |->
        IF \E n \in WeightedNames(orig) :
               Corresponding(g, n, ch[n]).ok /\ Corresponding(g, n, ch[n]).name = k
        THEN Corresponding(g,
                 CHOOSE n \in WeightedNames(orig) :
                     Corresponding(g, n, ch[n]).ok
                     /\ Corresponding(g, n, ch[n]).name = k,
                 ch[CHOOSE n \in WeightedNames(orig) :
                     Corresponding(g, n, ch[n]).ok
                     /\ Corresponding(g, n, ch[n]).name = k]).label
        ELSE DictGet(obf.options, k).weights[1].k]

\* C1: for every game and every weighted choice of the input document, the
\* obfuscated document, under the corresponding choice of its wrappers (of
\* the same weight), resolves every option name of the input game to what
\* the input document resolves it to.
C1_BehaviouralEquivalence ==
    pc = "done" =>
        \A g \in GameNames :
            LET orig == GameOf(Root_parse(doc), g)
                obf == GameOf(Root_parse(output), g)
                names == DictKeySet(orig.options)
            IN \A ch \in Choices(orig) :
                  /\ \A n \in WeightedNames(orig) :
                        /\ Corresponding(g, n, ch[n]).ok
                        /\ Corresponding(g, n, ch[n]).weight
                              = DictGet(DictGet(orig.options, n).weights, ch[n])
                  /\ Outcomes(obf,
                        InitialResolution(obf,
                            CorrespondingChoice(g, orig, obf, ch)),
                        names)
                     = Outcomes(orig, InitialResolution(orig, ch), names)

(***************************************************************************)
(* The round trip of the typed model: Root.parse, Root.output and          *)
(* Root.parse again, over documents that also hold single-entry weight     *)
(* mappings.                                                               *)
(***************************************************************************)
Weights1(l, w) == VMap(<<Ent(l, VInt(w))>>)

RoundTripAValues ==
    AValues \cup {Weights1(VStr("a1"), 1), Weights1(VStr("a1"), 5)}

RoundTripGameWeights ==
    {VStr("G"), Weights1(VStr("G"), 1), Weights1(VStr("G"), 3),
     Weights2(VStr("G"), 1, VStr("H"), 2)}

RoundTripDocument(game, g) ==
    IF game = Weights2(VStr("G"), 1, VStr("H"), 2)
    THEN Document("two_games", g)
    ELSE VMap(Header(game) \o <<Ent(VStr("G"), g)>>)

RoundTripDocuments ==
    {RoundTripDocument(game, GameG(a, <<OptionB, OptionSpecial>>, trigs)) :
        game \in RoundTripGameWeights, a \in RoundTripAValues,
        trigs \in SeqsNoRep(TriggerChoices, MaxTriggers)}

InitRoundTrip ==
    /\ doc \in RoundTripDocuments
    /\ pc = "parse"
    /\ random = 0
    /\ heap = <<>>
    /\ orig_root = 0
    /\ root = 0
    /\ extra_games = <<>>
    /\ iteration = 0
    /\ game_index = 1
    /\ calls = <<>>
    /\ output = VNull
    /\ text = <<>>
    /\ decoded = VNull

\* Root.output() of the parsed root
Output ==
    /\ pc = "context"
    /\ output' = Root_output(heap[1])
    /\ pc' = "reparse"
    /\ UNCHANGED <<doc, random, heap, orig_root, root, extra_games, iteration,
                   game_index, calls, text, decoded>>

\* Root.parse of what Root.output() returned
Reparse ==
    /\ pc = "reparse"
    /\ heap' = Append(heap, Root_parse(output))
    /\ pc' = "reparsed"
    /\ UNCHANGED <<doc, random, orig_root, root, extra_games, iteration,
                   game_index, calls, output, text, decoded>>

NextRoundTrip == Parse \/ Output \/ Reparse

SpecRoundTrip == InitRoundTrip /\ [][NextRoundTrip]_vars

\* C6: parsing the output of a parsed document gives a typed model equal to
\* the parsed document: the same games, options, label -> weight mappings,
\* game-selection weights and triggers.
C6_ModelRoundTrip ==
    pc = "reparsed" => heap[2] = heap[1]

(***************************************************************************)
(* obfuscate.py: the encoder.  Here a string value is given by its code    *)
(* points (field items) and the encoded text is a sequence of characters.  *)
(***************************************************************************)
VText(codepoints) ==
    [t |-> "str", s |-> "", n |-> 0, items |-> codepoints, ents |-> <<>>]

HexDigits == <<"0", "1", "2", "3", "4", "5", "6", "7", "8", "9",
               "a", "b", "c", "d", "e", "f">>

\* format(codepoint, "0<width>x")
RECURSIVE Hex(_, _)
Hex(codepoint, width) ==
    IF width = 0 THEN <<>>
    ELSE Hex(codepoint \div 16, width - 1) \o <<HexDigits[(codepoint % 16) + 1]>>

ord_to_unicode(codepoint) ==
    IF codepoint < 2^16
    THEN <<"\\", "u">> \o Hex(codepoint, 4)
    ELSE <<"\\", "U">> \o Hex(codepoint, 8)

RECURSIVE str_to_unicode_escapes(_)
str_to_unicode_escapes(string) ==
    IF string = <<>> THEN <<>>
    ELSE ord_to_unicode(Head(string)) \o str_to_unicode_escapes(Tail(string))

\* str(i) of an int, character by character
RECURSIVE NatChars(_)
NatChars(i) ==
    IF i < 10 THEN <<Digits[i + 1]>>
    ELSE NatChars(i \div 10) \o <<Digits[(i % 10) + 1]>>

IntChars(i) == IF i < 0 THEN <<"-">> \o NatChars(0 - i) ELSE NatChars(i)

\* sep.join(parts)
RECURSIVE Join(_, _)
Join(parts, sep) ==
    IF parts = <<>> THEN <<>>
    ELSE IF Len(parts) = 1 THEN parts[1]
    ELSE parts[1] \o sep \o Join(Tail(parts), sep)

RECURSIVE do(_)
RECURSIVE do_dict_inner(_, _)
do_dict_inner(key, value) ==
    CASE key.t = "str" ->
            <<"\"">> \o str_to_unicode_escapes(key.items) \o <<"\"", ":">>
            \o do(value)
      [] key.t = "int" -> IntChars(key.n) \o <<":", " ">> \o do(value)
      [] key.t = "bool" ->
            (IF key.n = 1 THEN <<"T", "r", "u", "e">>
                          ELSE <<"F", "a", "l", "s", "e">>)
            \o <<":", " ">> \o do(value)
      [] key.t = "null" -> <<"\"", "\"", ":">> \o do(value)

do(obj) ==
    CASE obj.t = "str" ->
            <<"\"">> \o str_to_unicode_escapes(obj.items) \o <<"\"">>
      [] obj.t = "list" ->
            <<"[">>
            \o Join([i \in 1..Len(obj.items) |-> do(obj.items[i])], <<",">>)
            \o <<"]">>
      [] obj.t = "null" -> <<"n", "u", "l", "l">>
      [] obj.t = "bool" ->
            IF obj.n = 1 THEN <<"t", "r", "u", "e">>
                         ELSE <<"f", "a", "l", "s", "e">>
      [] obj.t = "int" -> IntChars(obj.n)
      [] obj.t = "float" -> obj.items
      [] obj.t = "map" ->
            <<"{">>
            \o Join([i \in 1..Len(obj.ents) |->
                        do_dict_inner(obj.ents[i].k, obj.ents[i].v)], <<",">>)
            \o <<"}">>

to_obfuscated_yaml(obj) == do(obj)

(***************************************************************************)
(* The reader of the document format (yaml.safe_load), on the flow-style   *)
(* text the encoder produces: double-quoted scalars made of \u and \U      *)
(* escapes, plain scalars, flow sequences and flow mappings.  A node is    *)
(* read at a position and returns its value and the position after it.     *)
(***************************************************************************)
HexValue(c) == CHOOSE d \in 0..15 : HexDigits[d + 1] = c

RECURSIVE HexNumber(_, _, _)
HexNumber(chars, i, width) ==
    IF width = 0 THEN 0
    ELSE HexNumber(chars, i, width - 1) * 16 + HexValue(chars[i + width - 1])

DigitValue(c) == CHOOSE d \in 0..9 : Digits[d + 1] = c

RECURSIVE DecimalNumber(_)
DecimalNumber(chars) ==
    IF chars = <<>> THEN 0
    ELSE DecimalNumber(SubSeq(chars, 1, Len(chars) - 1)) * 10
         + DigitValue(chars[Len(chars)])

IsDigits(chars) ==
    chars # <<>> /\ \A i \in 1..Len(chars) : \E d \in 1..10 : Digits[d] = chars[i]

\* digits, a point, digits, with or without a sign
IsFloatText(chars) ==
    \E p \in 2..(Len(chars) - 1) :
        /\ chars[p] = "."
        /\ IsDigits(SubSeq(chars, p + 1, Len(chars)))
        /\ \/ IsDigits(SubSeq(chars, 1, p - 1))
           \/ chars[1] = "-" /\ IsDigits(SubSeq(chars, 2, p - 1))

\* the implicit tag of a plain scalar: null, bool, int or float
ResolvePlain(chars) ==
    CASE chars = <<"n", "u", "l", "l">> -> VNull
      [] chars \in {<<"t", "r", "u", "e">>, <<"T", "r", "u", "e">>} -> VBool(TRUE)
      [] chars \in {<<"f", "a", "l", "s", "e">>, <<"F", "a", "l", "s", "e">>} ->
            VBool(FALSE)
      [] IsDigits(chars) -> VInt(DecimalNumber(chars))
      [] Head(chars) = "-" /\ IsDigits(Tail(chars)) ->
            VInt(0 - DecimalNumber(Tail(chars)))
      [] IsFloatText(chars) -> VFloat(chars)

\* the body of a double-quoted scalar, from position i to its closing quote
RECURSIVE ScanDoubleQuoted(_, _, _)
ScanDoubleQuoted(chars, i, codepoints) ==
    CASE chars[i] = "\"" -> [value |-> VText(codepoints), next |-> i + 1]
      [] chars[i] = "\\" /\ chars[i + 1] = "u" ->
            ScanDoubleQuoted(chars, i + 6,
                Append(codepoints, HexNumber(chars, i + 2, 4)))
      [] chars[i] = "\\" /\ chars[i + 1] = "U" ->
            ScanDoubleQuoted(chars, i + 10,
                Append(codepoints, HexNumber(chars, i + 2, 8)))

\* the end of a plain scalar in flow context
RECURSIVE ScanPlain(_, _)
ScanPlain(chars, i) ==
    IF i > Len(chars) \/ chars[i] \in {",", "]", "}", ":"} THEN i
    ELSE ScanPlain(chars, i + 1)

RECURSIVE SkipSpaces(_, _)
SkipSpaces(chars, i) ==
    IF i <= Len(chars) /\ chars[i] = " " THEN SkipSpaces(chars, i + 1) ELSE i

RECURSIVE ParseNode(_, _)
RECURSIVE ParseFlowSequence(_, _, _)
RECURSIVE ParseFlowMapping(_, _, _)
ParseNode(chars, i) ==
    CASE chars[i] = "\"" -> ScanDoubleQuoted(chars, i + 1, <<>>)
      [] chars[i] = "[" -> ParseFlowSequence(chars, i + 1, <<>>)
      [] chars[i] = "{" -> ParseFlowMapping(chars, i + 1, <<>>)
      [] OTHER ->
            [value |-> ResolvePlain(SubSeq(chars, i, ScanPlain(chars, i) - 1)),
             next |-> ScanPlain(chars, i)]

ParseFlowSequence(chars, i, items) ==
    IF chars[i] = "]" THEN [value |-> VList(items), next |-> i + 1]
    ELSE LET item == ParseNode(chars, i)
         IN IF chars[item.next] = ","
            THEN ParseFlowSequence(chars, item.next + 1,
                                   Append(items, item.value))
            ELSE [value |-> VList(Append(items, item.value)),
                  next |-> item.next + 1]

\* a key met twice keeps its first position and takes the later value
ParseFlowMapping(chars, i, ents) ==
    IF chars[i] = "}" THEN [value |-> VMap(ents), next |-> i + 1]
    ELSE LET key == ParseNode(chars, i)
             val == ParseNode(chars, SkipSpaces(chars, key.next + 1))
             entries == DictSet(ents, key.value, val.value)
         IN IF chars[val.next] = ","
            THEN ParseFlowMapping(chars, val.next + 1, entries)
            ELSE [value |-> VMap(entries), next |-> val.next + 1]

safe_load(chars) == ParseNode(chars, 1).value

(***************************************************************************)
(* The value trees the encoder is applied to: scalars, and sequences and   *)
(* mappings of up to MaxItems scalars or one-element containers, the keys  *)
(* of a mapping being strings, integers or null.                           *)
(***************************************************************************)
MaxItems == 2

EncodeScalars ==
    {VText(<<>>), VText(<<65>>), VText(<<65, 128512>>),
     VInt(0), VInt(-7), VInt(42), VFloat(<<"1", ".", "5">>),
     VBool(TRUE), VBool(FALSE), VNull}

EncodeKeys == {VText(<<65>>), VText(<<>>), VInt(5), VNull}

EncodeItems ==
    {VText(<<65, 128512>>), VInt(-7), VNull, VBool(TRUE),
     VList(<<VNull>>), VMap(<<Ent(VInt(5), VText(<<65>>))>>),
     VMap(<<Ent(VNull, VInt(42))>>)}

EncodeValues ==
    EncodeScalars
    \cup {VList(q) : q \in UNION {[1..k -> EncodeItems] : k \in 0..MaxItems}}
    \cup {VMap([i \in 1..Len(ks) |-> Ent(ks[i], vs[i])]) :
             ks \in SeqsNoRep(EncodeKeys, MaxItems),
             vs \in [1..MaxItems -> EncodeItems]}

InitEncode ==
    /\ doc \in EncodeValues
    /\ pc = "encode"
    /\ random = 0
    /\ heap = <<>>
    /\ orig_root = 0
    /\ root = 0
    /\ extra_games = <<>>
    /\ iteration = 0
    /\ game_index = 1
    /\ calls = <<>>
    /\ output = VNull
    /\ text = <<>>
    /\ decoded = VNull

\* obfuscate.py line 87: to_obfuscated_yaml of a decoded document
Encode ==
    /\ pc = "encode"
    /\ text' = to_obfuscated_yaml(doc)
    /\ pc' = "decode"
    /\ UNCHANGED <<doc, random, heap, orig_root, root, extra_games, iteration,
                   game_index, calls, output, decoded>>

\* reading the encoded text back with the document reader
Decode ==
    /\ pc = "decode"
    /\ decoded' = safe_load(text)
    /\ pc' = "decoded"
    /\ UNCHANGED <<doc, random, heap, orig_root, root, extra_games, iteration,
                   game_index, calls, output, text>>

NextEncode == Encode \/ Decode

SpecEncode == InitEncode /\ [][NextEncode]_vars

\* C7: decoding the encoded text of a value tree gives a tree equal to it;
\* a null key decodes to a null key and an integer key to the same integer.
C7_EncoderReversible ==
    pc = "decoded" => decoded = doc

\* the options of game g that Root.parse made CustomOptions
CustomNames(r, g) ==
    {GameOf(r, g).options[i].k :
        i \in {j \in 1..Len(GameOf(r, g).options) :
                  ~IsWeightedOption(GameOf(r, g).options[j].v)}}

\* C11: after pass 0 and after pass 1, every option of a game that parsed as
\* a CustomOption is still in the game's option mapping under its name with
\* its raw value, no obfuscate_game_wrap call of the game wrapped an option
\* of that name, and no generated trigger overrides it.
C11_CustomOptionsUntouched ==
    PassCompleted =>
        \A g \in GameNames :
            \A k \in CustomNames(heap[orig_root], g) :
                /\ DictHas(GameOf(heap[root], g).options, k)
                /\ DictGet(GameOf(heap[root], g).options, k)
                      = DictGet(GameOf(heap[orig_root], g).options, k)
                /\ \A i \in 1..Len(calls) :
                      calls[i].game_name = g =>
                          /\ ~DictHas(calls[i].real_name_to_wrapped, k)
                          /\ \A a \in 1..Len(calls[i].wrapped_triggers) :
                                ~DictHas(OverridesFor(calls[i].wrapped_triggers[a], g),
                                         VStr(k))

\* the triggers the game came with that gate on an option the call wrapped
GatesOnWrapped(c) ==
    {a \in 1..Len(c.triggers) :
        /\ c.triggers[a].option_category = c.game_name
        /\ DictHas(c.real_name_to_wrapped, c.triggers[a].option_name)}

\* C12: a pass-0 obfuscate_game_wrap call for a game with a trigger that
\* gates on a wrapped option raises nothing, whatever the trigger's
\* option_result is: every trigger is kept and the generated triggers are
\* appended.
C12_PassZeroTotalOverGateValues ==
    \A i \in 1..Len(calls) :
        LET c == calls[i]
        IN (c.iteration = 0 /\ GatesOnWrapped(c) # {}) =>
              /\ c.err = ""
              /\ Len(c.triggers_after)
                    = Len(c.triggers) + Len(c.wrapped_triggers)
              /\ SubSeq(c.triggers_after, Len(c.triggers) + 1,
                        Len(c.triggers_after)) = c.wrapped_triggers
====
